---------------------------- MODULE Spec2Model ----------------------------
(***************************************************************************)
(* Sliding-window rate limiter of src/middleware/errorHandler.js           *)
(* (createRateLimiter, cleanupRequestStore, getRateLimiterStats,           *)
(* resetClient, resetAll) over the process-wide requestStore map.          *)
(*                                                                         *)
(* Timestamps are milliseconds, as Date.now() returns them.  Every         *)
(* exported function and the middleware itself are synchronous JavaScript: *)
(* each runs to completion on the event loop, so each is one action.       *)
(*                                                                         *)
(* The loading of the configuration by src/config/config.js (defaults,     *)
(* validateConfig, mergeEnvironmentConfig) supplies the limiter's          *)
(* settings.                                                               *)
(*                                                                         *)
(* The file handlers of src/server.js and of the routes modules (POST      *)
(* /convert, POST /convert-batch, DELETE /files/:filename) act on the      *)
(* uploads and outputs directories.  The conversion handlers are async:    *)
(* a request is stored by multer, then its handler runs to the await of a  *)
(* conversion, and goes on when the converter process has ended; each of   *)
(* these runs is one action, and other requests and the clock may move in  *)
(* between.                                                                *)
(***************************************************************************)
EXTENDS Integers, Sequences, FiniteSets, TLC

\* ------------------------------------------------------------------ bounds
\* Largest value the modelled clock reaches.
MaxTime == 3
\* Largest maxRequests option enumerated.
MaxLimit == 2

\* Client keys produced by generateKey (req.ip values).
Keys == {"a", "b"}
\* windowMs options enumerated: small windows make entries expire inside
\* MaxTime, the large ones exercise Math.ceil(windowMs / 1000).
Windows == {1, 2, 1000, 1001}
\* maxRequests options enumerated.
Limits == 1..MaxLimit
\* What a caller-supplied options.handler may do with a rejected request.
\* "none" is options.handler = null (the default).
Handlers == {"none", "respond429", "respond503", "callNext"}

VARIABLES
    requestStore,   \* the Map: a function from the stored keys to their logs
    now,            \* the value Date.now() returns
    enabled,        \* createRateLimiter: option enabled
    windowMs,       \* createRateLimiter: option windowMs
    maxRequests,    \* createRateLimiter: option maxRequests
    handler,        \* createRateLimiter: option handler
    cfgWindowMs,    \* config.security.rateLimit.windowMs
    last,           \* what the call that has just returned did: its locals,
                    \* headers and response (forgotten once time has passed)
    hist,           \* history: per key, the instants of the Allow decisions
                    \* since the key was last reset
    solo,           \* history: per key, the store of a run that leaves out
                    \* the Admit and ResetClient calls of the other keys
    justReset,      \* history: the last resetClient call, while no other
                    \* call than one Admit for the same key has followed it
    reqs,           \* requests in flight, each with its position inside
                    \* rateLimiter and the locals it holds there
    sweeper,        \* the cleanupRequestStore call in progress: its position
                    \* in the loop and the locals it holds there
    config,         \* config.js: the environment read, how far the module
                    \* has loaded, and its config.security.rateLimit object
    fs              \* the file system: the names of the files in the
                    \* uploads directory and in the outputs directory

vars == <<requestStore, now, enabled, windowMs, maxRequests, handler,
          cfgWindowMs, last, hist, solo, justReset, reqs, sweeper, config, fs>>

\* The two requests followed step by step through the middleware.
Reqs == {1, 2}

\* The uploads and outputs directories as server.js creates them.
EmptyDirs == [uploads |-> {}, outputs |-> {}]

\* ----------------------------------------------------------- the Map
EmptyStore == [k \in {} |-> <<>>]

\* Mutant: the middleware does not see what is stored.
StoreGetNothing(store, k) == <<>>

\* requestStore.get(clientKey) || []
StoreGet(store, k) == IF k \in DOMAIN store THEN store[k] ELSE <<>>

\* Mutant: one log shared by all clients.
StoreSetShared(store, k, log) == [x \in (DOMAIN store) \cup {k} |-> log]

\* requestStore.set(clientKey, recentRequests)
StoreSet(store, k, log) ==
    [x \in (DOMAIN store) \cup {k} |-> IF x = k THEN log ELSE store[x]]

\* Mutant: the entry is emptied, not removed.
StoreDeleteKeepsLog(store, k) == store

\* requestStore.delete(clientKey)
StoreDelete(store, k) == [x \in (DOMAIN store) \ {k} |-> store[x]]

\* Mutant: the lookup always succeeds.
StoreHasAlways(store, k) == TRUE

\* requestStore.has(clientKey)
StoreHas(store, k) == k \in DOMAIN store

\* ----------------------------------------------------- the middleware
\* Mutant: the enabled option is ignored, every limiter tracks.
BypassNever(en) == FALSE

\* if (!enabled): createRateLimiter returns the no-op middleware
Bypass(en) == ~en

\* Mutant: an entry exactly windowMs old still counts.
InWindowInclusive(t, timestamp, w) == t - timestamp <= w

\* timestamp => now - timestamp < windowMs
InWindow(t, timestamp, w) == t - timestamp < w

\* Mutant: nothing is pruned.
RecentRequestsUnpruned(clientRequests, t, w) == clientRequests

\* clientRequests.filter(timestamp => now - timestamp < windowMs)
RecentRequests(clientRequests, t, w) ==
    SelectSeq(clientRequests, LAMBDA timestamp : InWindow(t, timestamp, w))

\* Mutant: the limit is never reached.
LimitExceededNever(recentRequests, m) == FALSE

\* Mutant: the threshold is off by one.
LimitExceededStrict(recentRequests, m) == Len(recentRequests) > m

\* recentRequests.length >= maxRequests
LimitExceeded(recentRequests, m) == Len(recentRequests) >= m

\* Mutant: Math.round instead of Math.ceil.
RetryAfterRounded(w) == (w + 500) \div 1000

\* Mutant: Math.floor instead of Math.ceil.
RetryAfterFloor(w) == w \div 1000

\* Math.ceil(windowMs / 1000)
RetryAfter(w) == (w + 999) \div 1000

\* Mutant: the admitted request is not recorded.
PushNowDropped(recentRequests, t) == recentRequests

\* recentRequests.push(now)
PushNow(recentRequests, t) == Append(recentRequests, t)

\* Mutant: the quota left is computed as if before the push.
RemainingBeforePush(m, recentRequests) == m - Len(recentRequests) + 1

\* maxRequests - recentRequests.length, after the push
Remaining(m, recentRequests) == m - Len(recentRequests)


\* Mutant: a rejected request is recorded like an admitted one.
AdmissionRecordsReject(store, k, t, w, m) ==
    LET clientRequests == StoreGet(store, k)
        recentRequests == RecentRequests(clientRequests, t, w)
    IN  [decision       |-> IF LimitExceeded(recentRequests, m)
                            THEN "Reject" ELSE "Allow",
         clientRequests |-> clientRequests,
         recentRequests |-> recentRequests,
         remaining      |-> IF LimitExceeded(recentRequests, m) THEN 0
                            ELSE Remaining(m, PushNow(recentRequests, t)),
         retryAfter     |-> IF LimitExceeded(recentRequests, m)
                            THEN RetryAfter(w) ELSE 0,
         store          |-> StoreSet(store, k, PushNow(recentRequests, t))]

\* The decision of rateLimiter for key k at instant t on a store: the locals
\* clientRequests and recentRequests (before the push), the decision and the
\* store it leaves.
Admission(store, k, t, w, m) ==
    LET clientRequests == StoreGet(store, k)
        recentRequests == RecentRequests(clientRequests, t, w)
    IN  IF LimitExceeded(recentRequests, m)
        THEN [decision       |-> "Reject",
              clientRequests |-> clientRequests,
              recentRequests |-> recentRequests,
              remaining      |-> 0,
              retryAfter     |-> RetryAfter(w),
              store          |-> store]
        ELSE [decision       |-> "Allow",
              clientRequests |-> clientRequests,
              recentRequests |-> recentRequests,
              remaining      |-> Remaining(m, PushNow(recentRequests, t)),
              retryAfter     |-> 0,
              store          |-> StoreSet(store, k, PushNow(recentRequests, t))]

\* Mutant: the rejection does not return, the request goes on to next().
RejectResponseFallsThrough(h, outcome, retryAfter, m) ==
    [status |-> 429, nextCalls |-> 1, by |-> "default",
     body |-> [success |-> FALSE, retryAfter |-> retryAfter, limit |-> m]]

\* handleRateLimitExceeded: the response to a rejected request.  Without
\* options.handler it is res.status(429).json({... retryAfter, limit,
\* windowMs}); with one, whatever that handler does (outcome).
RejectResponse(h, outcome, retryAfter, m) ==
    IF h = "none"
    THEN [status |-> 429, nextCalls |-> 0, by |-> "default",
          body |-> [success |-> FALSE, retryAfter |-> retryAfter, limit |-> m]]
    ELSE [status |-> IF outcome = "respond429" THEN 429
                     ELSE IF outcome = "respond503" THEN 503 ELSE 0,
          nextCalls |-> IF outcome = "callNext" THEN 1 ELSE 0,
          by |-> "handler",
          body |-> [success |-> FALSE, retryAfter |-> retryAfter, limit |-> m]]

\* The no-op middleware returned when enabled is false.
DisabledResult(k, t) ==
    [op |-> "admit", key |-> k, at |-> t, decision |-> "Allow",
     headers |-> [disabled |-> "true", limit |-> "unlimited",
                  remaining |-> "unlimited"],
     status |-> 0, nextCalls |-> 1]

\* What rateLimiter leaves behind for a rejected request.
RejectResult(k, t, a, w, m, h, outcome) ==
    LET r == RejectResponse(h, outcome, a.retryAfter, m)
    IN  [op |-> "admit", key |-> k, at |-> t, decision |-> "Reject",
         clientRequests |-> a.clientRequests,
         recentRequests |-> a.recentRequests,
         headers |-> [limit |-> m, remaining |-> 0, reset |-> t + w,
                      retryAfter |-> a.retryAfter],
         status |-> r.status, nextCalls |-> r.nextCalls, by |-> r.by,
         body |-> r.body]

\* What rateLimiter leaves behind for an admitted request: the headers,
\* req.rateLimit and the call of next().
AllowResult(k, t, a, w, m) ==
    [op |-> "admit", key |-> k, at |-> t, decision |-> "Allow",
     clientRequests |-> a.clientRequests,
     recentRequests |-> a.recentRequests,
     headers |-> [limit |-> m, remaining |-> a.remaining, reset |-> t + w],
     rateLimit |-> [limit |-> m, remaining |-> a.remaining, reset |-> t + w,
                    windowMs |-> w],
     status |-> 0, nextCalls |-> 1]

\* -------------------------------------------------------- maintenance
\* Mutant: a log that became empty is stored back instead of deleted.
SweepStoreKeepsEmpty(store, t, w) ==
    [k \in DOMAIN store |-> RecentRequests(store[k], t, w)]

\* Mutant: the sweep empties the store.
SweepStoreClears(store, t, w) == EmptyStore

\* Mutant: the sweep leaves the store as it is.
SweepStoreIdle(store, t, w) == store

\* cleanupRequestStore: the loop over requestStore.entries()
SweepStore(store, t, w) ==
    LET keep == {k \in DOMAIN store : Len(RecentRequests(store[k], t, w)) # 0}
    IN  [k \in keep |-> RecentRequests(store[k], t, w)]

RECURSIVE SumRecent(_, _, _, _)
SumRecent(store, ks, t, w) ==
    IF ks = {} THEN 0
    ELSE LET k == CHOOSE x \in ks : TRUE
         IN  Len(RecentRequests(store[k], t, w))
               + SumRecent(store, ks \ {k}, t, w)

\* getRateLimiterStats
StatsOf(store, t, w) ==
    [activeClients |->
        Cardinality({k \in DOMAIN store :
                        Len(RecentRequests(store[k], t, w)) > 0}),
     totalRequests |-> SumRecent(store, DOMAIN store, t, w),
     storeSize     |-> Cardinality(DOMAIN store)]

\* Mutant: the statistics pass stores its filtered view back.
StatsStorePersisted(store, t, w) ==
    [k \in DOMAIN store |-> RecentRequests(store[k], t, w)]

\* The Map after getRateLimiterStats: the filter result is a local array
\* that is only counted, never stored.
StatsStore(store, t, w) == store

\* getRateLimiterStats: the configuration it reports.  windowMs / 1000 is
\* kept as the division it is.
StatsConfig(rl) ==
    [enabled     |-> rl.enabled,
     windowMs    |-> [dividend |-> rl.windowMs, divisor |-> 1000],
     maxRequests |-> rl.maxRequests]

\* ------------------------------------------------------------ history
\* The Allow instants of a key that are at most one millisecond past the
\* window ending now: older ones can never be counted by any later window.
HistKeep(h, t, w) == SelectSeq(h, LAMBDA ts : t - ts <= w + 1)

\* ------------------------------------------------------------ actions
Idle == [op |-> "init"]

\* The module has just been loaded (the Map is empty) and createRateLimiter
\* has returned one middleware.  The window is the configured one
\* (options.windowMs defaults to config.security.rateLimit.windowMs), so the
\* middleware, cleanupRequestStore and getRateLimiterStats use the same.
InitWith(handlers, windows) ==
    /\ requestStore = EmptyStore
    /\ now = 0
    /\ enabled \in BOOLEAN
    /\ windowMs \in windows
    /\ maxRequests \in Limits
    /\ handler \in handlers
    /\ cfgWindowMs = windowMs
    /\ config = [pc |-> "loaded",
                 rateLimit |-> [enabled     |-> enabled,
                                windowMs    |-> windowMs,
                                maxRequests |-> maxRequests]]
    /\ last = Idle
    /\ hist = [k \in Keys |-> <<>>]
    /\ solo = [store |-> [k \in Keys |-> EmptyStore], res |-> Idle]
    /\ justReset = Idle
    /\ reqs = [r \in Reqs |-> [pc |-> "idle"]]
    /\ sweeper = [pc |-> "idle"]
    /\ fs = EmptyDirs

\* createRateLimiter without options.handler: handler = null.
Init == InitWith({"none"}, Windows)

\* createRateLimiter with or without a caller-supplied options.handler.
DispatchInit == InitWith({"none", "custom"}, {1, 1001})

\* createRateLimiter({windowMs, maxRequests}): the options override the
\* configured values, which cleanupRequestStore and getRateLimiterStats
\* go on reading from config.security.rateLimit.
OptionsInit ==
    /\ requestStore = EmptyStore
    /\ now = 0
    /\ enabled = TRUE
    /\ windowMs \in {1, 2}
    /\ maxRequests \in Limits
    /\ handler = "none"
    /\ cfgWindowMs \in {1, 2}
    /\ \E m \in Limits :
          config = [pc |-> "loaded",
                    rateLimit |-> [enabled     |-> TRUE,
                                   windowMs    |-> cfgWindowMs,
                                   maxRequests |-> m]]
    /\ last = Idle
    /\ hist = [k \in Keys |-> <<>>]
    /\ solo = [store |-> [k \in Keys |-> EmptyStore], res |-> Idle]
    /\ justReset = Idle
    /\ reqs = [r \in Reqs |-> [pc |-> "idle"]]
    /\ sweeper = [pc |-> "idle"]
    /\ fs = EmptyDirs

\* Time passes.
Tick ==
    /\ now < MaxTime
    /\ now' = now + 1
    /\ hist' = [k \in Keys |-> HistKeep(hist[k], now + 1, windowMs)]
    /\ last' = [op |-> "tick"]
    /\ UNCHANGED <<requestStore, enabled, windowMs, maxRequests, handler,
                   cfgWindowMs, solo, justReset, reqs, sweeper, config, fs>>

\* A request of client k passes through the middleware.
Admit(k) ==
    /\ justReset' = IF /\ justReset.op = "resetClient"
                        /\ justReset.key = k
                        /\ ~justReset.followed
                     THEN [justReset EXCEPT !.followed = TRUE]
                     ELSE Idle
    /\ IF Bypass(enabled)
       THEN /\ last' = DisabledResult(k, now)
            /\ UNCHANGED <<requestStore, hist, solo>>
       ELSE LET a == Admission(requestStore, k, now, windowMs, maxRequests)
                s == Admission(solo.store[k], k, now, windowMs, maxRequests)
            IN  /\ requestStore' = a.store
                /\ solo' = [store |-> [solo.store EXCEPT ![k] = s.store],
                            res   |-> [decision  |-> s.decision,
                                       remaining |-> s.remaining]]
                /\ IF a.decision = "Reject"
                   THEN /\ \E outcome \in Handlers \ {"none"} :
                              /\ handler = "none" => outcome = "respond429"
                              /\ last' = RejectResult(k, now, a, windowMs,
                                             maxRequests, handler, outcome)
                        /\ hist' = hist
                   ELSE /\ last' = AllowResult(k, now, a, windowMs, maxRequests)
                        /\ hist' = [hist EXCEPT ![k] = Append(@, now)]
    /\ UNCHANGED <<now, enabled, windowMs, maxRequests, handler, cfgWindowMs,
                   reqs, sweeper, config, fs>>

\* resetClient(clientKey)
ResetClient(k) ==
    /\ requestStore' = IF StoreHas(requestStore, k)
                       THEN StoreDelete(requestStore, k) ELSE requestStore
    /\ last' = [op |-> "resetClient", key |-> k,
                result |-> StoreHas(requestStore, k)]
    /\ justReset' = [op |-> "resetClient", key |-> k, at |-> now,
                     deleted |-> StoreGet(requestStore, k),
                     followed |-> FALSE]
    /\ hist' = [hist EXCEPT ![k] = <<>>]
    /\ solo' = [solo EXCEPT !.store[k] = StoreDelete(@, k)]
    /\ UNCHANGED <<now, enabled, windowMs, maxRequests, handler, cfgWindowMs,
                   reqs, sweeper, config, fs>>

\* resetAll()
ResetAll ==
    /\ requestStore' = EmptyStore
    /\ last' = [op |-> "resetAll", size |-> Cardinality(DOMAIN requestStore)]
    /\ hist' = [k \in Keys |-> <<>>]
    /\ solo' = [solo EXCEPT !.store = [k \in Keys |-> EmptyStore]]
    /\ justReset' = Idle
    /\ UNCHANGED <<now, enabled, windowMs, maxRequests, handler, cfgWindowMs,
                   reqs, sweeper, config, fs>>

\* cleanupRequestStore(), run by the interval timer
Sweep ==
    /\ requestStore' = SweepStore(requestStore, now, cfgWindowMs)
    /\ last' = [op |-> "sweep", at |-> now]
    /\ justReset' = Idle
    /\ solo' = [solo EXCEPT !.store =
                    [k \in Keys |-> SweepStore(solo.store[k], now, cfgWindowMs)]]
    /\ UNCHANGED <<now, enabled, windowMs, maxRequests, handler, cfgWindowMs,
                   hist, reqs, sweeper, config, fs>>

\* getRateLimiterStats()
Stats ==
    /\ last' = [op |-> "stats", at |-> now,
                stats |-> StatsOf(requestStore, now, cfgWindowMs),
                reported |-> StatsConfig(config.rateLimit)]
    /\ requestStore' = StatsStore(requestStore, now, cfgWindowMs)
    /\ justReset' = Idle
    /\ UNCHANGED <<now, enabled, windowMs, maxRequests, handler,
                   cfgWindowMs, hist, solo, reqs, sweeper, config, fs>>

Next ==
    \/ Tick
    \/ \E k \in Keys : Admit(k)
    \/ \E k \in Keys : ResetClient(k)
    \/ ResetAll
    \/ Sweep
    \/ Stats

Spec == Init /\ [][Next]_vars

DispatchSpec == DispatchInit /\ [][Next]_vars

OptionsSpec == OptionsInit /\ [][Next]_vars

\* One enabled limiter with a window short enough to pass within the run.
TimerInit == InitWith({"none"}, {1, 2}) /\ enabled /\ maxRequests \in {1, 2}

\* Date.now() is the wall clock: an adjustment of the system time sets it
\* back.  The timestamps already stored stay as they are.  (The history
\* of Allow instants is kept for a clock that does not go back: it starts
\* again here.)
ClockStepBack ==
    /\ \E t \in 0..(now - 1) : now' = t
    /\ last' = [op |-> "clock"]
    /\ hist' = [k \in Keys |-> <<>>]
    /\ UNCHANGED <<requestStore, enabled, windowMs, maxRequests, handler,
                   cfgWindowMs, solo, justReset, reqs, sweeper, config, fs>>

ClockNext ==
    \/ Tick
    \/ ClockStepBack
    \/ \E k \in Keys : Admit(k)
    \/ Sweep

\* The limiter on a wall clock that can be set back.
ClockSpec == TimerInit /\ [][ClockNext]_vars


\* The interval timer of setInterval(cleanupRequestStore, ...) keeps
\* firing and the clock keeps advancing (up to the end of the run), while
\* requests arrive.
TimerNext ==
    \/ Tick
    \/ \E k \in Keys : Admit(k)
    \/ Sweep

TimerSpec ==
    TimerInit /\ [][TimerNext]_vars /\ WF_vars(Tick) /\ WF_vars(Sweep)


\* The client of a rejected request waits the Retry-After seconds it was
\* given: the clock is 1000 * retryAfter milliseconds later.
WaitRetryAfter ==
    /\ enabled /\ last.op = "admit" /\ last.decision = "Reject"
    /\ now <= MaxTime
    /\ now' = last.at + 1000 * last.headers.retryAfter
    /\ hist' = [k \in Keys |->
                  HistKeep(hist[k], last.at + 1000 * last.headers.retryAfter,
                           windowMs)]
    /\ last' = [op |-> "wait", key |-> last.key, from |-> last.at,
                retryAfter |-> last.headers.retryAfter]
    /\ UNCHANGED <<requestStore, enabled, windowMs, maxRequests, handler,
                   cfgWindowMs, solo, justReset, reqs, sweeper, config, fs>>

RetryNext ==
    \/ Tick
    \/ \E k \in Keys : Admit(k)
    \/ Sweep
    \/ WaitRetryAfter

\* One enabled limiter whose rejected clients come back after Retry-After.
RetryInit == Init /\ enabled

RetrySpec == RetryInit /\ [][RetryNext]_vars

\* ------------------------------------------------ the configuration
\* config.js builds config.security.rateLimit from process.env, validates
\* it, merges the settings of the environment named by NODE_ENV into it and
\* exports it; createRateLimiter() reads it.  JavaScript values are records
\* here: a number, NaN, a boolean, a string (its characters) or undefined.
Undefined == [t |-> "undefined"]
NaN == [t |-> "NaN"]
Num(n) == [t |-> "number", v |-> n]
Bool(b) == [t |-> "boolean", v |-> b]
Str(chars) == [t |-> "string", v |-> chars]

\* obj[name]: undefined for a property the object does not have.
Prop(obj, name) == IF name \in DOMAIN obj THEN obj[name] ELSE Undefined

\* ToBoolean
Truthy(x) ==
    CASE x.t = "number"  -> x.v # 0
      [] x.t = "boolean" -> x.v
      [] x.t = "string"  -> x.v # <<>>
      [] OTHER           -> FALSE

\* a || b
Or(a, b) == IF Truthy(a) THEN a ELSE b

DigitChars == {"0", "1", "2", "3", "4", "5", "6", "7", "8", "9"}

DigitValue(c) ==
    CASE c = "0" -> 0 [] c = "1" -> 1 [] c = "2" -> 2 [] c = "3" -> 3
      [] c = "4" -> 4 [] c = "5" -> 5 [] c = "6" -> 6 [] c = "7" -> 7
      [] c = "8" -> 8 [] c = "9" -> 9

\* The white-space characters parseInt skips (WhiteSpace and LineTerminator
\* of ECMAScript).  A character that a string of this module cannot spell is
\* written as its code point: U+000B is the vertical tab, U+00A0 the
\* no-break space, U+FEFF the byte order mark, U+2028 and U+2029 the line
\* and paragraph separators, the others the space separators of Unicode.
WhiteSpaceChars ==
    {" ", "\t", "\n", "\r", "\f", "U+000B", "U+00A0", "U+FEFF", "U+2028",
     "U+2029", "U+1680", "U+2000", "U+2001", "U+2002", "U+2003", "U+2004",
     "U+2005", "U+2006", "U+2007", "U+2008", "U+2009", "U+200A", "U+202F",
     "U+205F", "U+3000"}

\* The index of the first character of chars at or after i that is not
\* white space (Len(chars) + 1 if there is none).
RECURSIVE SkipSpace(_, _)
SkipSpace(chars, i) ==
    IF i <= Len(chars) /\ chars[i] \in WhiteSpaceChars
    THEN SkipSpace(chars, i + 1)
    ELSE i

HexLetters == <<"a", "b", "c", "d", "e", "f">>
HexCapitals == <<"A", "B", "C", "D", "E", "F">>

\* The value of c as a digit of the radix (10 or 16), -1 if it is none.
RadixDigit(c, radix) ==
    IF c \in DigitChars THEN DigitValue(c)
    ELSE IF radix = 16 /\ \E n \in 1..6 : c \in {HexLetters[n], HexCapitals[n]}
    THEN 9 + CHOOSE n \in 1..6 : c \in {HexLetters[n], HexCapitals[n]}
    ELSE 0 - 1

\* The digits of chars in the radix from index i on, up to the first
\* character that is not a digit: how many there are and their value after
\* acc.
RECURSIVE ReadDigits(_, _, _, _, _)
ReadDigits(chars, i, radix, acc, n) ==
    IF i <= Len(chars) /\ RadixDigit(chars[i], radix) >= 0
    THEN ReadDigits(chars, i + 1, radix,
                    radix * acc + RadixDigit(chars[i], radix), n + 1)
    ELSE [value |-> acc, count |-> n]

\* parseInt(x) without radix, for x undefined or a string: leading white
\* space, an optional sign, an optional 0x or 0X that makes the radix 16,
\* then digits up to the first character that is none; NaN when there is no
\* digit.  (The values read here stay below 2^31, where a JavaScript number
\* is exact.)
ParseInt(x) ==
    IF x.t # "string" THEN NaN
    ELSE LET i    == SkipSpace(x.v, 1)
             neg  == i <= Len(x.v) /\ x.v[i] = "-"
             sgn  == i <= Len(x.v) /\ x.v[i] \in {"-", "+"}
             j    == IF sgn THEN i + 1 ELSE i
             hex  == /\ j + 1 <= Len(x.v)
                     /\ x.v[j] = "0"
                     /\ x.v[j + 1] \in {"x", "X"}
             d    == ReadDigits(x.v, IF hex THEN j + 2 ELSE j,
                                IF hex THEN 16 ELSE 10, 0, 0)
         IN  IF d.count = 0 THEN NaN
             ELSE Num(IF neg THEN 0 - d.value ELSE d.value)

DefaultWindowMs == 15 * 60 * 1000
DefaultMaxRequests == 100
DevelopmentMaxRequests == 1000
ProductionMaxRequests == 100

NameFalse == <<"f", "a", "l", "s", "e">>
NameDevelopment == <<"d", "e", "v", "e", "l", "o", "p", "m", "e", "n", "t">>
NameProduction == <<"p", "r", "o", "d", "u", "c", "t", "i", "o", "n">>
NameTest == <<"t", "e", "s", "t">>
NameStaging == <<"s", "t", "a", "g", "i", "n", "g">>

\* config.server.environment
Environment(env) == Or(env.NODE_ENV, Str(NameDevelopment))

\* The object literal of config.security, as far as the limiter reads it
\* (cors stands for the other members of security).
SecurityDefaults(env) ==
    [rateLimit |->
        [enabled     |-> Bool(env.RATE_LIMIT_ENABLED # Str(NameFalse)),
         windowMs    |-> Or(ParseInt(env.RATE_LIMIT_WINDOW),
                            Num(DefaultWindowMs)),
         maxRequests |-> Or(ParseInt(env.RATE_LIMIT_MAX),
                            Num(DefaultMaxRequests))],
     cors |-> [enabled |-> Bool(TRUE)]]

\* x <= 0 in JavaScript: false for undefined and NaN.
NotPositive(x) == x.t = "number" /\ x.v <= 0

\* validateConfig: the errors about rate limiting.
ValidateConfig(security) ==
    IF Truthy(Prop(security.rateLimit, "enabled"))
    THEN (IF NotPositive(Prop(security.rateLimit, "windowMs"))
          THEN {"Invalid rate limit window: must be greater than 0"}
          ELSE {})
         \cup
         (IF NotPositive(Prop(security.rateLimit, "maxRequests"))
          THEN {"Invalid rate limit max requests: must be greater than 0"}
          ELSE {})
    ELSE {}

\* getEnvironmentConfig(environment).security, or no such member for an
\* environment that has no entry (envConfigs[environment] || {}).
GetEnvironmentConfig(environment) ==
    CASE environment = Str(NameDevelopment) ->
            [security |-> [rateLimit |->
                [enabled     |-> Bool(TRUE),
                 maxRequests |-> Num(DevelopmentMaxRequests)]]]
      [] environment = Str(NameProduction) ->
            [security |-> [rateLimit |->
                [enabled     |-> Bool(TRUE),
                 maxRequests |-> Num(ProductionMaxRequests)]]]
      [] environment = Str(NameTest) ->
            [security |-> [rateLimit |-> [enabled |-> Bool(FALSE)]]]
      [] OTHER -> [x \in {} |-> Undefined]

\* { ...a, ...b }
Spread(a, b) ==
    [k \in (DOMAIN a) \cup (DOMAIN b) |-> IF k \in DOMAIN b THEN b[k] ELSE a[k]]

\* mergeEnvironmentConfig: config[key] = { ...config[key], ...envConfig[key] }
\* for key = security.
MergeEnvironmentConfig(security, envConfig) ==
    IF "security" \in DOMAIN envConfig
    THEN Spread(security, envConfig.security)
    ELSE security

\* The values process.env gives the four variables: not set, or a string.
NodeEnvs == {Undefined, Str(NameDevelopment), Str(NameProduction),
             Str(NameTest), Str(NameStaging)}
EnabledValues == {Undefined, Str(NameFalse), Str(<<"t", "r", "u", "e">>)}
WindowValues == {Undefined, Str(<<"0">>), Str(<<"1">>),
                 Str(<<"6", "0", "0", "0", "0", "0">>),
                 Str(<<"-", "5">>), Str(<<"1", "5", "m", "i", "n">>),
                 Str(<<"\t", "1", "2">>), Str(<<"0", "x", "1", "0">>)}
MaxValues == {Undefined, Str(<<"0">>), Str(<<"2">>), Str(<<"5", "0", "0">>),
              Str(<<"m", "a", "x">>), Str(<<"\n", "3">>),
              Str(<<"U+00A0", "+", "0", "X", "f">>), Str(<<"0", "x">>)}

\* config.js starts to load: the object literal has been evaluated from
\* process.env.  No limiter exists yet.
ConfigInit ==
    /\ \E ne \in NodeEnvs, en \in EnabledValues,
          w \in WindowValues, m \in MaxValues :
          LET env == [NODE_ENV |-> ne, RATE_LIMIT_ENABLED |-> en,
                      RATE_LIMIT_WINDOW |-> w, RATE_LIMIT_MAX |-> m]
          IN  config = [pc |-> "constructed", env |-> env,
                        environment |-> Environment(env),
                        security |-> SecurityDefaults(env)]
    /\ requestStore = EmptyStore
    /\ now = 0
    /\ enabled = Undefined
    /\ windowMs = Undefined
    /\ maxRequests = Undefined
    /\ handler = "none"
    /\ cfgWindowMs = Undefined
    /\ last = Idle
    /\ hist = [k \in Keys |-> <<>>]
    /\ solo = [store |-> [k \in Keys |-> EmptyStore], res |-> Idle]
    /\ justReset = Idle
    /\ reqs = [r \in Reqs |-> [pc |-> "idle"]]
    /\ sweeper = [pc |-> "idle"]
    /\ fs = EmptyDirs

ConfigFrame == UNCHANGED <<requestStore, now, handler, last, hist, solo,
                           justReset, reqs, sweeper, fs>>

\* const validationErrors = validateConfig(); if (length > 0) throw
Validate ==
    /\ config.pc = "constructed"
    /\ config' = [config EXCEPT
                    !.pc = IF ValidateConfig(config.security) = {}
                           THEN "validated" ELSE "failed"]
    /\ UNCHANGED <<enabled, windowMs, maxRequests, cfgWindowMs>>
    /\ ConfigFrame

\* mergeEnvironmentConfig(); module.exports = { ...config, ... }
Merge ==
    /\ config.pc = "validated"
    /\ config' = [config EXCEPT
                    !.pc = "loaded",
                    !.security = MergeEnvironmentConfig(
                                     config.security,
                                     GetEnvironmentConfig(config.environment))]
    /\ UNCHANGED <<enabled, windowMs, maxRequests, cfgWindowMs>>
    /\ ConfigFrame

\* createRateLimiter(): every option takes its default from
\* config.security.rateLimit.
CreateRateLimiter ==
    /\ config.pc = "loaded"
    /\ config' = [config EXCEPT !.pc = "created"]
    /\ enabled' = Prop(config.security.rateLimit, "enabled")
    /\ windowMs' = Prop(config.security.rateLimit, "windowMs")
    /\ maxRequests' = Prop(config.security.rateLimit, "maxRequests")
    /\ cfgWindowMs' = Prop(config.security.rateLimit, "windowMs")
    /\ ConfigFrame

ConfigNext ==
    \/ Validate
    \/ Merge
    \/ CreateRateLimiter

\* The load of config.js followed by createRateLimiter().
ConfigSpec == ConfigInit /\ [][ConfigNext]_vars

\* ---------------------------------------------------------- the files
\* File names are sequences of characters.

\* s.includes(sub)
Includes(s, sub) ==
    \E i \in 1..(Len(s) - Len(sub) + 1) : SubSeq(s, i, i + Len(sub) - 1) = sub

UpperCase == <<"A", "B", "C", "D", "E", "F", "G", "H", "I", "J", "K", "L", "M",
               "N", "O", "P", "Q", "R", "S", "T", "U", "V", "W", "X", "Y", "Z">>
LowerCase == <<"a", "b", "c", "d", "e", "f", "g", "h", "i", "j", "k", "l", "m",
               "n", "o", "p", "q", "r", "s", "t", "u", "v", "w", "x", "y", "z">>

LowerChar(c) ==
    IF \E i \in DOMAIN UpperCase : UpperCase[i] = c
    THEN LowerCase[CHOOSE i \in DOMAIN UpperCase : UpperCase[i] = c]
    ELSE c

\* s.toLowerCase(), for names of ASCII characters
ToLowerCase(s) == [i \in DOMAIN s |-> LowerChar(s[i])]

\* s.endsWith(suffix)
EndsWith(s, suffix) ==
    /\ Len(s) >= Len(suffix)
    /\ SubSeq(s, Len(s) - Len(suffix) + 1, Len(s)) = suffix

ExtDocx == <<".", "d", "o", "c", "x">>
ExtPdf == <<".", "p", "d", "f">>

\* FILE_VALIDATION.DANGEROUS_PATTERNS, without the control characters
\* \x00-\x1f, which no name used here contains.
DangerousChars == {"<", ">", ":", "\"", "|", "?", "*"}

\* UPLOAD_LIMITS.MAX_FILENAME_LENGTH
MaxFilenameLength == 255

\* filename.includes('..') || filename.includes('/') ||
\* filename.includes('\\')
HasTraversal(filename) ==
    \/ Includes(filename, <<".", ".">>)
    \/ Includes(filename, <<"/">>)
    \/ Includes(filename, <<"\\">>)

\* validateFilename(filename)
ValidateFilename(filename) ==
    /\ filename # <<>>
    /\ ~HasTraversal(filename)
    /\ \A i \in DOMAIN filename : filename[i] \notin DangerousChars
    /\ Len(filename) <= MaxFilenameLength

\* fs.existsSync(path.join(outputsDir, filename)), for a filename without
\* "..", "/" or backslash: "." joins to the outputs directory itself, which
\* exists; any other name exists when the directory holds a file of that
\* name.
ExistsInOutputs(dirs, filename) ==
    \/ filename = <<".">>
    \/ filename \in dirs.outputs

\* fs.unlinkSync(path.join(outputsDir, filename))
UnlinkOutput(dirs, filename) ==
    [dirs EXCEPT !.outputs = dirs.outputs \ {filename}]

\* app.delete('/files/:filename') without its test of the file type.
DeleteServerAnyType(dirs, filename) ==
    IF HasTraversal(filename)
    THEN [status |-> 400, dirs |-> dirs]
    ELSE IF ~ExistsInOutputs(dirs, filename)
    THEN [status |-> 404, dirs |-> dirs]
    ELSE [status |-> 200, dirs |-> UnlinkOutput(dirs, filename)]

\* app.delete('/files/:filename') of server.js: the status of the response
\* and the directories it leaves.
DeleteServer(dirs, filename) ==
    IF HasTraversal(filename)
    THEN [status |-> 400, dirs |-> dirs]
    ELSE IF ~ExistsInOutputs(dirs, filename)
    THEN [status |-> 404, dirs |-> dirs]
    ELSE IF ~EndsWith(ToLowerCase(filename), ExtDocx)
    THEN [status |-> 400, dirs |-> dirs]
    ELSE [status |-> 200, dirs |-> UnlinkOutput(dirs, filename)]

\* router.delete('/files/:filename') of the routes module.  The module
\* takes validateFilePath from utils/validation, which does not export it
\* (utils/fileManager does): for a file that exists the call of the
\* undefined validateFilePath throws a TypeError, the catch clause answers
\* 500, and fs.unlinkSync is never reached.
DeleteRoute(dirs, filename) ==
    IF ~ValidateFilename(filename)
    THEN [status |-> 400, dirs |-> dirs]
    ELSE IF ~ExistsInOutputs(dirs, filename)
    THEN [status |-> 404, dirs |-> dirs]
    ELSE [status |-> 500, dirs |-> dirs]

\* app.post('/cleanup') of server.js: of the files in `old` (those created
\* before Date.now() - maxAge) it removes the ones whose name ends in
\* ".docx", in the letters' own case.
CleanupServer(dirs, old) ==
    [status |-> 200,
     dirs |-> [dirs EXCEPT !.outputs =
                   dirs.outputs \ {f \in old : EndsWith(f, ExtDocx)}]]

\* cleanupOldFiles(directory, maxAge) of utils/fileManager: it removes the
\* files of the directory in `old` (those modified more than maxAge ago).
CleanupOldFiles(dirs, directory, old) ==
    [dirs EXCEPT ![directory] = dirs[directory] \ old]

\* Names of files the outputs directory may hold when the server starts:
\* converted documents and files put there by other means.
StoredNames == {<<"a", ".", "d", "o", "c", "x">>,
                <<"A", ".", "D", "O", "C", "X">>,
                <<"a", ".", "t", "x", "t">>,
                <<"a", ".", "p", "d", "f">>,
                <<"a", ":", "b", ".", "d", "o", "c", "x">>}

\* The :filename parameters of the requests.
RequestNames ==
    StoredNames \cup
    {<<".", ".">>,
     <<".", ".", "/", "a", ".", "d", "o", "c", "x">>,
     <<"a", "\\", "b", ".", "d", "o", "c", "x">>,
     <<"b", ".", "d", "o", "c", "x">>,
     <<"d", "o", "c", "x">>,
     <<".">>}

FilesFrame == UNCHANGED <<requestStore, now, enabled, windowMs, maxRequests,
                          handler, cfgWindowMs, hist, solo, justReset, reqs,
                          sweeper, config>>

\* DELETE /files/:filename answered by server.js
DeleteFileServer(filename) ==
    LET r == DeleteServer(fs, filename)
    IN  /\ fs' = r.dirs
        /\ last' = [op |-> "delete", by |-> "server", filename |-> filename,
                    status |-> r.status,
                    removed |-> fs.outputs \ r.dirs.outputs]
        /\ FilesFrame

\* DELETE /files/:filename answered by the routes module
DeleteFileRoute(filename) ==
    LET r == DeleteRoute(fs, filename)
    IN  /\ fs' = r.dirs
        /\ last' = [op |-> "delete", by |-> "routes", filename |-> filename,
                    status |-> r.status,
                    removed |-> fs.outputs \ r.dirs.outputs]
        /\ FilesFrame

\* POST /cleanup answered by server.js; the ages of the files decide which
\* of them are old.
Cleanup ==
    \E old \in SUBSET fs.outputs :
        LET r == CleanupServer(fs, old)
        IN  /\ fs' = r.dirs
            /\ last' = [op |-> "cleanup", by |-> "server",
                        status |-> r.status,
                        removed |-> fs.outputs \ r.dirs.outputs]
            /\ FilesFrame

\* cleanupOldFiles(directory, maxAge) called on one of the two directories
CleanupOld ==
    \E directory \in {"uploads", "outputs"} :
      \E old \in SUBSET fs[directory] :
        /\ fs' = CleanupOldFiles(fs, directory, old)
        /\ last' = [op |-> "cleanupOldFiles", directory |-> directory,
                    removed |-> old]
        /\ FilesFrame

\* The server has started: the directories exist (server.js creates them
\* when they are missing and leaves them as they are otherwise), with the
\* files that `outputs` holds.
FilesInit(outputs) ==
    /\ requestStore = EmptyStore
    /\ now = 0
    /\ enabled = TRUE
    /\ windowMs = 1
    /\ maxRequests = 1
    /\ handler = "none"
    /\ cfgWindowMs = windowMs
    /\ config = [pc |-> "loaded",
                 rateLimit |-> [enabled     |-> enabled,
                                windowMs    |-> windowMs,
                                maxRequests |-> maxRequests]]
    /\ last = Idle
    /\ hist = [k \in Keys |-> <<>>]
    /\ solo = [store |-> [k \in Keys |-> EmptyStore], res |-> Idle]
    /\ justReset = Idle
    /\ reqs = [r \in Reqs |-> [pc |-> "idle"]]
    /\ sweeper = [pc |-> "idle"]
    /\ fs \in [uploads : {{}}, outputs : outputs]

DeleteInit == FilesInit(SUBSET StoredNames)

DeleteNext ==
    \/ \E filename \in RequestNames : DeleteFileServer(filename)
    \/ \E filename \in RequestNames : DeleteFileRoute(filename)
    \/ Cleanup
    \/ CleanupOld

DeleteSpec == DeleteInit /\ [][DeleteNext]_vars

\* -------------------------------------------------------- the uploads
\* An uploaded file is the record multer hands to the handler: path (the
\* unique name it was stored under in the uploads directory), originalname,
\* mimetype and size.  multer's fileFilter has already accepted the file on
\* its name and type, before its size was known.

\* The number of files the uploads directory can hold.
MaxUploads == 3

\* The number of files in one batch request.
MaxBatch == 2

UploadNames == 1..MaxUploads

\* UPLOAD_LIMITS.MAX_FILE_SIZE
MaxFileSize == 50 * 1024 * 1024

\* UPLOAD_LIMITS.MAX_TOTAL_SIZE
MaxTotalSize == 200 * 1024 * 1024

\* UPLOAD_LIMITS.MAX_FILES_PER_REQUEST
MaxFilesPerRequest == 10

MimePdf == "application/pdf"

\* The index of the last "." of a name, 0 when it has none.
LastDot(name) ==
    LET dots == {i \in DOMAIN name : name[i] = "."}
    IN  IF dots = {} THEN 0 ELSE CHOOSE i \in dots : \A j \in dots : j <= i

\* path.extname(name), for a name without separator
ExtName(name) ==
    IF LastDot(name) <= 1 \/ name = <<".", ".">>
    THEN <<>>
    ELSE SubSeq(name, LastDot(name), Len(name))

\* path.basename(name, ext), for a name without separator
Basename(name, ext) ==
    IF name = ext THEN <<>>
    ELSE IF ext # <<>> /\ EndsWith(name, ext)
    THEN SubSeq(name, 1, Len(name) - Len(ext))
    ELSE name

DigitChar(d) == CHOOSE c \in DigitChars : DigitValue(c) = d

RECURSIVE Decimal(_)
\* String(n) for a natural number n
Decimal(n) ==
    IF n < 10 THEN <<DigitChar(n)>>
    ELSE Decimal(n \div 10) \o <<DigitChar(n % 10)>>

\* `${baseName}-${timestamp}.docx`
DocxFilename(originalname, timestamp) ==
    Basename(originalname, ExtPdf) \o <<"-">> \o Decimal(timestamp) \o ExtDocx

\* validatePdfFile of utils/validation: the errors it collects
ValidatePdfFile(file) ==
    (IF file.size > MaxFileSize THEN <<"FILE_TOO_LARGE">> ELSE <<>>)
    \o (IF file.mimetype # MimePdf THEN <<"INVALID_FILE_TYPE">> ELSE <<>>)
    \o (IF ToLowerCase(ExtName(file.originalname)) # ExtPdf
        THEN <<"INVALID_EXTENSION">> ELSE <<>>)
    \o (IF file.size = 0 THEN <<"FILE_CORRUPTED">> ELSE <<>>)
    \o (IF Len(file.originalname) > MaxFilenameLength
        THEN <<"FILENAME_TOO_LONG">> ELSE <<>>)
    \o (IF \E i \in DOMAIN file.originalname :
               file.originalname[i] \in DangerousChars
        THEN <<"INVALID_FILENAME">> ELSE <<>>)

\* validatePdfFile of server.js
ValidatePdfFileServer(file) ==
    (IF file.size > MaxFileSize THEN <<"FILE_TOO_LARGE">> ELSE <<>>)
    \o (IF file.mimetype # MimePdf THEN <<"INVALID_FILE_TYPE">> ELSE <<>>)
    \o (IF ToLowerCase(ExtName(file.originalname)) # ExtPdf
        THEN <<"INVALID_EXTENSION">> ELSE <<>>)
    \o (IF file.size = 0 THEN <<"FILE_CORRUPTED">> ELSE <<>>)

RECURSIVE TotalSize(_)
\* files.reduce((sum, file) => sum + file.size, 0)
TotalSize(files) ==
    IF files = <<>> THEN 0 ELSE files[1].size + TotalSize(Tail(files))

RECURSIVE FileErrors(_, _)
\* files.forEach: one error for each file, from index i on, that
\* validatePdfFile finds fault with
FileErrors(files, i) ==
    IF i > Len(files) THEN <<>>
    ELSE (IF ValidatePdfFile(files[i]) # <<>> THEN <<i>> ELSE <<>>)
         \o FileErrors(files, i + 1)

\* validateBatch(files)
ValidateBatch(files) ==
    IF Len(files) = 0
    THEN [errors |-> <<"NO_FILES_UPLOADED">>, warnings |-> <<>>]
    ELSE IF Len(files) > MaxFilesPerRequest
    THEN [errors |-> <<"TOO_MANY_FILES">>, warnings |-> <<>>]
    ELSE [errors |->
              (IF TotalSize(files) > MaxTotalSize
               THEN <<"TOTAL_SIZE_EXCEEDED">> ELSE <<>>)
              \o FileErrors(files, 1),
          warnings |->
              IF \E i, j \in DOMAIN files :
                     i < j /\ files[i].originalname = files[j].originalname
              THEN <<"DUPLICATE_FILENAMES">> ELSE <<>>]

\* cleanupTempFile(filePath) / cleanupTempFiles(filePath)
CleanupTempFile(dirs, filePath) ==
    IF filePath \in dirs.uploads
    THEN [dirs EXCEPT !.uploads = dirs.uploads \ {filePath}]
    ELSE dirs

RECURSIVE CleanupBatchFiles(_, _)
\* cleanupBatchFiles(filePaths)
CleanupBatchFiles(dirs, filePaths) ==
    IF filePaths = <<>> THEN dirs
    ELSE CleanupBatchFiles(CleanupTempFile(dirs, Head(filePaths)),
                           Tail(filePaths))

\* The original names of uploads that pass the fileFilter.
OriginalNames == {<<"a", ".", "p", "d", "f">>}

\* The sizes of stored uploads: an empty file and a file of one byte.
FileSizes == {0, 1}

\* The file object multer hands to the handler.
StoredFile(path, originalname, size) ==
    [path |-> path, originalname |-> originalname, mimetype |-> MimePdf,
     size |-> size]

RECURSIVE InOrder(_)
\* req.files: the stored names of one request, in the order of their upload
InOrder(paths) ==
    IF paths = {} THEN <<>>
    ELSE LET first == CHOOSE p \in paths : \A q \in paths : p <= q
         IN  <<first>> \o InOrder(paths \ {first})

\* diskStorage: the uploads directory with the stored files added
StoreUploads(dirs, paths) == [dirs EXCEPT !.uploads = dirs.uploads \cup paths]

\* How the converter process ends: exit code 0, another exit code, killed by
\* the conversion timeout, or never started ('error').
Exits == {"0", "1", "timeout", "error"}

\* What is at docxPath when the process ends: nothing, an empty file, or a
\* file with content.
Documents == {"absent", "empty", "content"}

\* convertPdfToDocx(pdfPath, docxPath) when the process has ended: whether
\* the promise resolves, and the directories.  Whatever the process wrote
\* stays in the outputs directory, also when the promise rejects.
ConvertPdfToDocx(dirs, docxFilename, exit, document) ==
    [resolves |-> exit = "0" /\ document = "content",
     dirs |-> IF document = "absent" THEN dirs
              ELSE [dirs EXCEPT !.outputs = dirs.outputs \cup {docxFilename}]]

\* A request that is not in flight.
NoRequest == [pc |-> "idle"]

\* A request whose uploads multer has stored and whose handler has not
\* run yet.
Uploaded(op, by, files) ==
    [pc |-> "uploaded", op |-> op, by |-> by, files |-> files, i |-> 0,
     docx |-> <<>>, uploadedFilePaths |-> <<>>, results |-> 0, errors |-> 0]

\* The set of the stored names of a request.
StoredOf(req) == {req.files[i].path : i \in DOMAIN req.files}

\* What a step of a handler leaves: the request (in flight at an await, or
\* answered), the directories, and the status of the response if one was
\* sent (0 if none).
Awaiting(req, dirs) == [req |-> req, dirs |-> dirs, status |-> 0]
Answered(status, dirs) == [req |-> NoRequest, dirs |-> dirs, status |-> status]

\* The handler of POST /convert up to its await, with the validation of
\* its module.
ConvertHandler(errors, dirs, req, timestamp) ==
    IF req.files = <<>>
    THEN Answered(400, dirs)
    ELSE IF errors # <<>>
    THEN Answered(400, CleanupTempFile(dirs, req.files[1].path))
    ELSE IF req.files[1].path \notin dirs.uploads
    THEN Answered(500, CleanupTempFile(dirs, req.files[1].path))
    ELSE Awaiting([req EXCEPT !.pc = "converting", !.i = 1,
                              !.docx = DocxFilename(req.files[1].originalname,
                                                    timestamp)],
                  dirs)

\* app.post('/convert') of server.js up to `await convertPdfToDocx`
ConvertSingleServer(dirs, req, timestamp) ==
    ConvertHandler(IF req.files = <<>> THEN <<>>
                   ELSE ValidatePdfFileServer(req.files[1]),
                   dirs, req, timestamp)

\* router.post('/convert') of routes/convert up to `await convertPdfToDocx`
ConvertSingleRoute(dirs, req, timestamp) ==
    ConvertHandler(IF req.files = <<>> THEN <<>>
                   ELSE ValidatePdfFile(req.files[1]),
                   dirs, req, timestamp)

\* The handler of POST /convert from the end of the conversion on.
ConvertSettled(dirs, req, exit, document) ==
    LET c == ConvertPdfToDocx(dirs, req.docx, exit, document)
    IN  Answered(IF c.resolves THEN 200 ELSE 500,
                 CleanupTempFile(c.dirs, req.files[1].path))

RECURSIVE BatchLoop(_, _, _, _)
\* The loop of POST /convert-batch from file i on, up to its next await or
\* to the response.
BatchLoop(dirs, req, i, timestamp) ==
    IF i > Len(req.files)
    THEN Answered(IF req.errors = 0 THEN 200
                  ELSE IF req.results = 0 THEN 500 ELSE 207,
                  CleanupBatchFiles(dirs, req.uploadedFilePaths))
    ELSE LET pushed == [req EXCEPT !.uploadedFilePaths =
                                       Append(@, req.files[i].path)]
         IN  IF req.files[i].path \notin dirs.uploads
             THEN BatchLoop(dirs, [pushed EXCEPT !.errors = @ + 1],
                            i + 1, timestamp)
             ELSE Awaiting(
                      [pushed EXCEPT !.pc = "converting", !.i = i,
                                     !.docx = DocxFilename(
                                                  req.files[i].originalname,
                                                  timestamp + (i - 1))],
                      dirs)

\* router.post('/convert-batch') of routes/convert up to its first await
ConvertBatchRoute(dirs, req, timestamp) ==
    IF Len(req.files) = 0
    THEN Answered(400, dirs)
    ELSE IF ValidateBatch(req.files).errors # <<>>
    THEN Answered(400, dirs)
    ELSE BatchLoop(dirs, req, 1, timestamp)

\* router.post('/convert-batch') from the end of the conversion of file
\* req.i on.
BatchSettled(dirs, req, exit, document, timestamp) ==
    LET c == ConvertPdfToDocx(dirs, req.docx, exit, document)
    IN  BatchLoop(c.dirs,
                  IF c.resolves THEN [req EXCEPT !.results = @ + 1]
                                ELSE [req EXCEPT !.errors = @ + 1],
                  req.i + 1, timestamp)

UploadFrame == UNCHANGED <<requestStore, now, enabled, windowMs, maxRequests,
                           handler, cfgWindowMs, hist, solo, justReset,
                           sweeper, config>>

\* The routes that take uploads, and the number of files each accepts here.
UploadRoutes ==
    {[op |-> "convert", by |-> "server", most |-> 1],
     [op |-> "convert", by |-> "routes", most |-> 1],
     [op |-> "convert-batch", by |-> "routes", most |-> MaxBatch]}

\* multer stores the uploads of request r under names not in use.
Upload(r) ==
    /\ reqs[r].pc = "idle"
    /\ \E route \in UploadRoutes :
         \E n \in 0..route.most :
           \E stored \in SUBSET (UploadNames \ fs.uploads),
              names \in [1..n -> OriginalNames],
              sizes \in [1..n -> FileSizes] :
             /\ Cardinality(stored) = n
             /\ reqs' = [reqs EXCEPT ![r] =
                    Uploaded(route.op, route.by,
                             [i \in 1..n |-> StoredFile(InOrder(stored)[i],
                                                        names[i], sizes[i])])]
             /\ fs' = StoreUploads(fs, stored)
             /\ last' = [op |-> "upload", stored |-> stored]
    /\ UploadFrame

\* What a step of the handler of request r leaves behind.
HandlerStep(r, step) ==
    /\ reqs' = [reqs EXCEPT ![r] = step.req]
    /\ fs' = step.dirs
    /\ last' = IF step.status = 0 THEN last
               ELSE [op |-> reqs[r].op, by |-> reqs[r].by,
                     stored |-> StoredOf(reqs[r]), status |-> step.status]
    /\ UploadFrame

\* The handler of POST /convert of server.js runs to its await or response.
ConvertServer(r) ==
    /\ reqs[r].pc = "uploaded"
    /\ reqs[r].op = "convert" /\ reqs[r].by = "server"
    /\ HandlerStep(r, ConvertSingleServer(fs, reqs[r], now))

\* The handler of POST /convert of routes/convert runs to its await or
\* response.
ConvertRoute(r) ==
    /\ reqs[r].pc = "uploaded"
    /\ reqs[r].op = "convert" /\ reqs[r].by = "routes"
    /\ HandlerStep(r, ConvertSingleRoute(fs, reqs[r], now))

\* The handler of POST /convert-batch runs to its first await or response.
ConvertBatch(r) ==
    /\ reqs[r].pc = "uploaded"
    /\ reqs[r].op = "convert-batch"
    /\ HandlerStep(r, ConvertBatchRoute(fs, reqs[r], now))

\* The document at docxPath when the process ends: a file that was there
\* before is still there.
DocumentsAt(dirs, docxFilename) ==
    IF docxFilename \in dirs.outputs THEN Documents \ {"absent"} ELSE Documents

\* The conversion that POST /convert awaits has ended.
ConvertDone(r) ==
    /\ reqs[r].pc = "converting"
    /\ reqs[r].op = "convert"
    /\ \E exit \in Exits, document \in DocumentsAt(fs, reqs[r].docx) :
         HandlerStep(r, ConvertSettled(fs, reqs[r], exit, document))

\* The conversion that POST /convert-batch awaits has ended.
BatchDone(r) ==
    /\ reqs[r].pc = "converting"
    /\ reqs[r].op = "convert-batch"
    /\ \E exit \in Exits, document \in DocumentsAt(fs, reqs[r].docx) :
         HandlerStep(r, BatchSettled(fs, reqs[r], exit, document, now))

\* The server has started with empty directories.
UploadInit == FilesInit({{}})

UploadNext ==
    \/ Tick
    \/ \E r \in Reqs : Upload(r)
    \/ \E r \in Reqs : ConvertServer(r)
    \/ \E r \in Reqs : ConvertRoute(r)
    \/ \E r \in Reqs : ConvertBatch(r)
    \/ \E r \in Reqs : ConvertDone(r)
    \/ \E r \in Reqs : BatchDone(r)

UploadSpec == UploadInit /\ [][UploadNext]_vars

\* ------------------------------------------------- two middlewares
\* A second middleware, returned by createRateLimiter() without options:
\* its window and limit are the configured ones.  It works on the same
\* requestStore as the middleware created with options (Admit).
AdmitDefault(k) ==
    LET a == Admission(requestStore, k, now, cfgWindowMs,
                       config.rateLimit.maxRequests)
    IN  /\ requestStore' = a.store
        /\ last' = Spread(IF a.decision = "Reject"
                          THEN RejectResult(k, now, a, cfgWindowMs,
                                            config.rateLimit.maxRequests,
                                            "none", "respond429")
                          ELSE AllowResult(k, now, a, cfgWindowMs,
                                           config.rateLimit.maxRequests),
                          [op |-> "admitDefault"])
        /\ hist' = IF a.decision = "Allow"
                   THEN [hist EXCEPT ![k] = Append(@, now)] ELSE hist
        /\ justReset' = Idle
        /\ UNCHANGED <<now, enabled, windowMs, maxRequests, handler,
                       cfgWindowMs, solo, reqs, sweeper, config, fs>>

\* The client whose requests pass through both middlewares.
SharedKeys == {"a"}

SharedNext ==
    \/ Tick
    \/ \E k \in SharedKeys : Admit(k)
    \/ \E k \in SharedKeys : AdmitDefault(k)
    \/ Sweep

\* Two middlewares with their own windows and limits on the one Map.
SharedSpec == OptionsInit /\ [][SharedNext]_vars

\* --------------------------------------- the middleware, step by step
\* The statements of rateLimiter taken one at a time for the requests in
\* flight, under the scheduling of the event loop: a callback that has
\* started runs until it returns or yields.

\* Positions inside rateLimiter: after requestStore.get, after the filter,
\* before the push.
Mid(pc) == pc \in {"read", "filtered", "pushing"}

\* Mutant: the store is awaited, the middleware yields after reading it.
YieldsAfterGet(pc) == pc = "read"

\* Mutant: cleanupRequestStore yields between its filter and its
\* delete/set of a key.
YieldsInSweep(pc) == pc = "sweepFiltered"

\* Whether rateLimiter or cleanupRequestStore gives the event loop a turn
\* at a position: both are plain functions without await or callback, so
\* nowhere.
Yields(pc) == FALSE

\* Positions inside cleanupRequestStore: between two keys of the loop, and
\* between the filter of a key and its delete/set.
SweepMid(pc) == pc \in {"iterating", "sweepFiltered"}

\* The event loop lets r run: no other request is inside rateLimiter and
\* the timer callback is not inside cleanupRequestStore, unless it has
\* yielded there.
CanRun(r) ==
    /\ \A o \in Reqs \ {r} : Mid(reqs[o].pc) => Yields(reqs[o].pc)
    /\ SweepMid(sweeper.pc) => Yields(sweeper.pc)

\* The event loop lets the timer callback run: no request is inside
\* rateLimiter, unless it has yielded there.
CanSweep == \A o \in Reqs : Mid(reqs[o].pc) => Yields(reqs[o].pc)

LoopFrame == UNCHANGED <<now, enabled, windowMs, maxRequests, handler,
                         cfgWindowMs, last, hist, solo, justReset, config, fs>>

\* A request of client k enters the middleware chain.
Arrive(r, k) ==
    /\ reqs[r].pc = "idle"
    /\ reqs' = [reqs EXCEPT ![r] = [pc |-> "queued", key |-> k]]
    /\ UNCHANGED requestStore
    /\ UNCHANGED sweeper
    /\ LoopFrame

\* const clientKey, now, clientRequests
Start(r) ==
    /\ reqs[r].pc = "queued"
    /\ CanRun(r)
    /\ reqs' = [reqs EXCEPT ![r] =
                  [pc |-> "read", key |-> reqs[r].key, at |-> now,
                   clientRequests |-> StoreGet(requestStore, reqs[r].key)]]
    /\ UNCHANGED requestStore
    /\ UNCHANGED sweeper
    /\ LoopFrame

\* const recentRequests = clientRequests.filter(...)
Filter(r) ==
    /\ reqs[r].pc = "read"
    /\ CanRun(r)
    /\ reqs' = [reqs EXCEPT ![r] =
                  [pc |-> "filtered", key |-> reqs[r].key, at |-> reqs[r].at,
                   recentRequests |->
                       RecentRequests(reqs[r].clientRequests, reqs[r].at,
                                      windowMs)]]
    /\ UNCHANGED requestStore
    /\ UNCHANGED sweeper
    /\ LoopFrame

\* if (recentRequests.length >= maxRequests) { ... return ... }
Check(r) ==
    /\ reqs[r].pc = "filtered"
    /\ CanRun(r)
    /\ reqs' = [reqs EXCEPT ![r] =
                  IF LimitExceeded(reqs[r].recentRequests, maxRequests)
                  THEN [pc |-> "done", key |-> reqs[r].key, at |-> reqs[r].at,
                        decision |-> "Reject", remaining |-> 0]
                  ELSE [reqs[r] EXCEPT !.pc = "pushing"]]
    /\ UNCHANGED requestStore
    /\ UNCHANGED sweeper
    /\ LoopFrame

\* recentRequests.push(now); requestStore.set(...); headers; next()
Store(r) ==
    /\ reqs[r].pc = "pushing"
    /\ CanRun(r)
    /\ LET pushed == PushNow(reqs[r].recentRequests, reqs[r].at)
       IN  /\ requestStore' = StoreSet(requestStore, reqs[r].key, pushed)
           /\ reqs' = [reqs EXCEPT ![r] =
                         [pc |-> "done", key |-> reqs[r].key,
                          at |-> reqs[r].at, decision |-> "Allow",
                          remaining |-> Remaining(maxRequests, pushed)]]
    /\ UNCHANGED sweeper
    /\ LoopFrame

\* One enabled limiter with the default handler, and nothing in flight.
LoopInit == Init /\ enabled

LoopNext ==
    \/ Tick
    \/ \E r \in Reqs, k \in Keys : Arrive(r, k)
    \/ \E r \in Reqs : Start(r)
    \/ \E r \in Reqs : Filter(r)
    \/ \E r \in Reqs : Check(r)
    \/ \E r \in Reqs : Store(r)

LoopSpec == LoopInit /\ [][LoopNext]_vars

\* ------------------------------------ the timer callback, step by step
SweepFrame == UNCHANGED <<now, enabled, windowMs, maxRequests, handler,
                          cfgWindowMs, last, hist, solo, justReset, config,
                          reqs, fs>>

\* The interval fires: const now = Date.now(); const windowMs = config...
SweepBegin ==
    /\ sweeper.pc = "idle"
    /\ CanSweep
    /\ sweeper' = [pc |-> "iterating", at |-> now, visited |-> {}]
    /\ UNCHANGED requestStore
    /\ SweepFrame

\* The next entry of requestStore.entries() and its filter.  The iterator
\* is live: it yields the entries the Map holds when it is advanced.  The
\* Map iterates in insertion order, which the store here does not record:
\* any order is taken.
SweepFilter(k) ==
    /\ sweeper.pc = "iterating"
    /\ CanSweep
    /\ k \in DOMAIN requestStore /\ k \notin sweeper.visited
    /\ sweeper' = [pc |-> "sweepFiltered", at |-> sweeper.at,
                   visited |-> sweeper.visited \cup {k}, key |-> k,
                   recentRequests |->
                       RecentRequests(requestStore[k], sweeper.at,
                                      cfgWindowMs)]
    /\ UNCHANGED requestStore
    /\ SweepFrame

\* if (recentRequests.length === 0) delete else set
SweepWrite ==
    /\ sweeper.pc = "sweepFiltered"
    /\ CanSweep
    /\ requestStore' =
          IF Len(sweeper.recentRequests) = 0
          THEN StoreDelete(requestStore, sweeper.key)
          ELSE StoreSet(requestStore, sweeper.key, sweeper.recentRequests)
    /\ sweeper' = [pc |-> "iterating", at |-> sweeper.at,
                   visited |-> sweeper.visited]
    /\ SweepFrame

\* The iterator is exhausted: cleanupRequestStore returns.
SweepEnd ==
    /\ sweeper.pc = "iterating"
    /\ CanSweep
    /\ DOMAIN requestStore \subseteq sweeper.visited
    /\ sweeper' = [pc |-> "idle"]
    /\ UNCHANGED requestStore
    /\ SweepFrame

SweepLoopNext ==
    \/ Tick
    \/ \E r \in Reqs, k \in Keys : Arrive(r, k)
    \/ \E r \in Reqs : Start(r)
    \/ \E r \in Reqs : Filter(r)
    \/ \E r \in Reqs : Check(r)
    \/ \E r \in Reqs : Store(r)
    \/ SweepBegin
    \/ \E k \in Keys : SweepFilter(k)
    \/ SweepWrite
    \/ SweepEnd

\* The requests and the periodic sweep on one event loop.
SweepLoopSpec == LoopInit /\ [][SweepLoopNext]_vars

\* ------------------------------------------------------------- claims
\* The number of Allow decisions for key k, since its last reset, whose
\* instants lie in the window (n - windowMs, n].
AllowedInWindow(k, n) ==
    Cardinality({i \in DOMAIN hist[k] :
                    n - windowMs < hist[k][i] /\ hist[k][i] <= n})

\* The Allow history of the key of the call that has just returned, as it
\* was before that call.
HistBefore ==
    IF last.decision = "Allow"
    THEN SubSeq(hist[last.key], 1, Len(hist[last.key]) - 1)
    ELSE hist[last.key]

\* The latest maxRequests admissions in h all happened at instant t0.
FilledAt(h, t0) ==
    /\ Len(h) >= maxRequests
    /\ \A i \in (Len(h) - maxRequests + 1)..Len(h) : h[i] = t0

AdmitReturned == enabled /\ last.op = "admit"

\* C1: between resets of a key, the Allow decisions for that key whose
\* instants lie in the window ending now never number more than
\* maxRequests, whatever calls for other keys, Stats calls and Sweep runs
\* are interleaved.  (Timestamps never decrease, so the count for the
\* window ending at n is final in the last state with now = n.)
C1_SlidingWindowCeiling ==
    enabled => \A k \in Keys : AllowedInWindow(k, now) <= maxRequests

\* C1 witness: a request was rejected with the window holding exactly
\* maxRequests = 2 admissions made at two different instants.
C1_Witness ==
    /\ AdmitReturned /\ last.decision = "Reject"
    /\ maxRequests = 2
    /\ AllowedInWindow(last.key, now) = 2
    /\ hist[last.key][Len(hist[last.key])] # hist[last.key][1]

\* C2 (P1): a call that finds a log holding only j entries of the current
\* instant (j = 0: no log) is the (j+1)th consecutive call at that instant:
\* it is allowed while j < maxRequests and rejected when j = maxRequests.
C2_WindowBoundary ==
    AdmitReturned =>
        LET c == last.clientRequests
        IN  (\A i \in DOMAIN c : c[i] = last.at) =>
                /\ Len(c) <= maxRequests
                /\ Len(c) < maxRequests => last.decision = "Allow"
                /\ Len(c) = maxRequests => last.decision = "Reject"

\* C2 witness: the third call at one instant is rejected, maxRequests = 2.
C2_Witness ==
    /\ AdmitReturned /\ last.decision = "Reject" /\ maxRequests = 2
    /\ last.clientRequests = <<last.at, last.at>>
    /\ hist[last.key] = <<last.at, last.at>>

\* C3: once maxRequests admissions at instant t0 filled the window of a
\* key, a call at t with t0 <= t < t0 + windowMs is rejected, and a call at
\* t0 + windowMs or at t0 + windowMs + 1 is allowed with
\* remaining = maxRequests - 1.
C3_ExpiryBoundary ==
    AdmitReturned =>
        \A t0 \in 0..now :
            FilledAt(HistBefore, t0) =>
                /\ now < t0 + windowMs => last.decision = "Reject"
                /\ now \in {t0 + windowMs, t0 + windowMs + 1} =>
                      /\ last.decision = "Allow"
                      /\ last.headers.remaining = maxRequests - 1

\* C3 witness: two admissions at t0 filled a window of 2 ms, and the call
\* at t0 + 2 exactly has been allowed.
C3_Witness ==
    /\ AdmitReturned /\ last.decision = "Allow"
    /\ maxRequests = 2 /\ windowMs = 2
    /\ FilledAt(HistBefore, now - 2)
    /\ last.headers.remaining = 1

\* C5 (P3): the entry of every key is what it is in the run without the
\* other keys' Admit and ResetClient calls, every Admit returns the decision
\* and the remaining value it returns in that run, and an Admit for one key
\* leaves the entry of every other key as it was.
C5_Independence ==
    /\ [](enabled =>
            /\ \A k \in Keys :
                  /\ StoreHas(requestStore, k) = StoreHas(solo.store[k], k)
                  /\ StoreGet(requestStore, k) = StoreGet(solo.store[k], k)
            /\ last.op = "admit" =>
                  /\ last.decision = solo.res.decision
                  /\ last.headers.remaining = solo.res.remaining)
    /\ [][\A j \in Keys : \A k \in Keys \ {j} :
              Admit(j) =>
                  /\ StoreHas(requestStore', k) = StoreHas(requestStore, k)
                  /\ StoreGet(requestStore', k) = StoreGet(requestStore, k)]_vars

\* C5 witness: a key has just been rejected while the other key, with
\* entries of its own in the store, still has quota.
C5_Witness ==
    /\ AdmitReturned /\ last.decision = "Reject"
    /\ \E k \in Keys \ {last.key} :
          /\ StoreHas(requestStore, k)
          /\ Len(StoreGet(requestStore, k)) < maxRequests
          /\ Admission(requestStore, k, now, windowMs, maxRequests).decision
                = "Allow"

\* C6 (P4): a disabled limiter allows every call, reports remaining as
\* unlimited, calls next once, and the store stays empty, so that Stats
\* counts no active client.
C6_DisabledBypass ==
    ~enabled =>
        /\ requestStore = EmptyStore
        /\ StatsOf(requestStore, now, cfgWindowMs).activeClients = 0
        /\ last.op = "admit" =>
              /\ last.decision = "Allow"
              /\ last.headers.remaining = "unlimited"
              /\ last.nextCalls = 1
        /\ last.op = "stats" => last.stats.activeClients = 0

\* C6 witness: a disabled limiter has let a request through after time
\* has passed.
C6_Witness ==
    /\ ~enabled /\ last.op = "admit" /\ now > 0
    /\ last.decision = "Allow" /\ last.nextCalls = 1

\* C7 (P6): when resetClient(k) removed a log that would still make a call
\* now be rejected, the Admit for k that follows it immediately is allowed
\* with remaining = maxRequests - 1.
C7_ResetReopens ==
    (/\ AdmitReturned
     /\ justReset.op = "resetClient" /\ justReset.followed
     /\ justReset.key = last.key
     /\ LimitExceeded(RecentRequests(justReset.deleted, now, windowMs),
                      maxRequests))
    => /\ last.decision = "Allow"
       /\ last.headers.remaining = maxRequests - 1

\* C7 witness: a full window was reset and, one millisecond later and still
\* inside it, the key has been admitted again.
C7_Witness ==
    /\ AdmitReturned /\ last.decision = "Allow"
    /\ justReset.op = "resetClient" /\ justReset.followed
    /\ justReset.key = last.key
    /\ justReset.at < now
    /\ maxRequests = 2
    /\ LimitExceeded(RecentRequests(justReset.deleted, now, windowMs),
                     maxRequests)

\* The least number of whole seconds that covers windowMs milliseconds.
CeilSeconds == CHOOSE r \in 0..windowMs :
                   1000 * r >= windowMs /\ 1000 * (r - 1) < windowMs

\* C8: every rejection carries retryAfter = ceil(windowMs / 1000) seconds,
\* in the Retry-After header and in the body, and remaining = 0.
C8_RejectRetryAfter ==
    (AdmitReturned /\ last.decision = "Reject") =>
        /\ last.headers.retryAfter = CeilSeconds
        /\ last.body.retryAfter = CeilSeconds
        /\ last.headers.remaining = 0

\* C8 witness: with a window of 1001 ms a rejection says 2 seconds although
\* the oldest counted entry expires in less than one second.
C8_Witness ==
    /\ AdmitReturned /\ last.decision = "Reject"
    /\ windowMs = 1001 /\ last.headers.retryAfter = 2
    /\ last.recentRequests[1] + windowMs - now < 1000
    /\ now > last.recentRequests[1]

\* C9: an Allow reports remaining = maxRequests minus the length of the
\* stored log after the append, a value in 0 .. maxRequests - 1, which is
\* maxRequests - n for the n-th admission inside the window.
C9_AllowRemaining ==
    (AdmitReturned /\ last.decision = "Allow") =>
        /\ last.headers.remaining
              = maxRequests - Len(StoreGet(requestStore, last.key))
        /\ last.headers.remaining \in 0..(maxRequests - 1)
        /\ last.headers.remaining
              = maxRequests - AllowedInWindow(last.key, now)
        /\ last.rateLimit.remaining = last.headers.remaining

\* C9 witness: the second admission inside a window of 2 ms, made one
\* millisecond after the first, reports remaining = 0.
C9_Witness ==
    /\ AdmitReturned /\ last.decision = "Allow"
    /\ maxRequests = 2 /\ windowMs = 2
    /\ hist[last.key][Len(hist[last.key])] = now
    /\ Len(hist[last.key]) >= 2
    /\ hist[last.key][Len(hist[last.key]) - 1] = now - 1
    /\ last.headers.remaining = 0


\* The requests that have returned from rateLimiter.
Returned == {r \in Reqs : reqs[r].pc = "done"}

\* C4 (P5): the statements of one rateLimiter call run as a unit (no two
\* requests are inside the middleware at once), and with maxRequests = 1
\* two requests for the same key that read the same instant end as exactly
\* one Allow and one Reject.
C4_ConcurrentAdmission ==
    /\ Cardinality({r \in Reqs : Mid(reqs[r].pc)}) <= 1
    /\ \A r1 \in Returned : \A r2 \in Returned \ {r1} :
          (/\ maxRequests = 1
           /\ reqs[r1].key = reqs[r2].key
           /\ reqs[r1].at = reqs[r2].at)
          => {reqs[r1].decision, reqs[r2].decision} = {"Allow", "Reject"}

\* C4 witness: both requests, same key and same instant, have returned
\* from a limiter with maxRequests = 1, one allowed and one rejected.
C4_Witness ==
    /\ maxRequests = 1 /\ Returned = Reqs
    /\ reqs[1].key = reqs[2].key /\ reqs[1].at = reqs[2].at
    /\ reqs[1].decision # reqs[2].decision

\* The quota metadata of an admitted request: the X-RateLimit-* headers and
\* req.rateLimit.
QuotaAttached ==
    /\ last.headers.limit = maxRequests
    /\ last.headers.remaining \in 0..(maxRequests - 1)
    /\ last.headers.reset = now + windowMs
    /\ last.rateLimit.limit = maxRequests
    /\ last.rateLimit.remaining = last.headers.remaining

\* C10 as claimed: an Allow calls next exactly once with the quota metadata
\* attached and produces no response; a Reject produces a 429 response with
\* retry-after and never calls next.
C10_DispatchOutcome ==
    AdmitReturned =>
        /\ last.decision \in {"Allow", "Reject"}
        /\ last.decision = "Allow" =>
              last.nextCalls = 1 /\ last.status = 0 /\ QuotaAttached
        /\ last.decision = "Reject" =>
              /\ last.status = 429
              /\ last.headers.retryAfter = RetryAfter(windowMs)
              /\ last.nextCalls = 0

\* C10 amended: as claimed when no options.handler was given; with one, a
\* Reject still sets the Retry-After and remaining = 0 headers and the
\* middleware itself never calls next, but the response is whatever the
\* handler makes of it.
C10_DispatchOutcomeDefaultHandler ==
    AdmitReturned =>
        /\ last.decision \in {"Allow", "Reject"}
        /\ last.decision = "Allow" =>
              last.nextCalls = 1 /\ last.status = 0 /\ QuotaAttached
        /\ last.decision = "Reject" =>
              /\ last.headers.retryAfter = RetryAfter(windowMs)
              /\ last.headers.remaining = 0
              /\ handler = "none" =>
                    /\ last.by = "default"
                    /\ last.status = 429
                    /\ last.body.retryAfter = RetryAfter(windowMs)
                    /\ last.nextCalls = 0
              /\ handler # "none" => last.by = "handler"

\* C10 witness: the default handler has answered a rejected request with
\* 429 and next was not called.
C10_Witness ==
    /\ AdmitReturned /\ last.decision = "Reject" /\ handler = "none"
    /\ last.status = 429 /\ last.nextCalls = 0
    /\ last.headers.retryAfter = 2


\* C11: getRateLimiterStats leaves the Map exactly as it was: the same keys
\* with the same stored timestamps, stale ones included.
C11_StatsReadOnly ==
    [][Stats => requestStore' = requestStore]_vars

\* C11 witness: Stats has just returned and the store still holds a key
\* whose timestamps are all stale, which Stats did not count.
C11_Witness ==
    /\ enabled /\ last.op = "stats"
    /\ \E k \in DOMAIN requestStore :
          \A i \in DOMAIN requestStore[k] :
              now - requestStore[k][i] >= windowMs
    /\ last.stats.activeClients < last.stats.storeSize

\* The stored timestamps, as (key, position) pairs, that lie inside the
\* window of the admitting limiter at the instant now.
FreshEntries ==
    UNION {{<<k, i>> : i \in {j \in DOMAIN requestStore[k] :
                                 now - requestStore[k][j] < windowMs}} :
           k \in DOMAIN requestStore}

\* C12: Stats counts as active the stored keys with a timestamp inside the
\* limiter's window, totals those timestamps over all keys, and reports the
\* limiter's window and maxRequests.
C12_StatsValues ==
    last.op = "stats" =>
        /\ last.stats.activeClients
              = Cardinality({e[1] : e \in FreshEntries})
        /\ last.stats.totalRequests = Cardinality(FreshEntries)
        /\ last.reported.windowMs.dividend = windowMs
        /\ last.reported.maxRequests = maxRequests


\* C13: resetClient(k) returns true exactly when k has an entry; afterwards
\* k has none, and every other key has the entry it had.
C13_ResetClientResult ==
    [][\A k \in Keys :
          ResetClient(k) =>
              /\ last'.result = (k \in DOMAIN requestStore)
              /\ k \notin DOMAIN requestStore'
              /\ DOMAIN requestStore' = (DOMAIN requestStore) \ {k}
              /\ \A j \in DOMAIN requestStore' :
                    requestStore'[j] = requestStore[j]]_vars

\* C13 witness: resetClient has returned true for a key that is gone now,
\* while the other key still has its entry.
C13_Witness ==
    /\ last.op = "resetClient" /\ last.result
    /\ justReset.deleted # <<>>
    /\ last.key \notin DOMAIN requestStore
    /\ DOMAIN requestStore # {}

\* The timestamps of a log that are inside the window at instant s, in
\* their stored order.
FreshPart(log, s) == SelectSeq(log, LAMBDA t : s - t < windowMs)

\* C14: right after a Sweep at instant s every key left has a non-empty log
\* of timestamps t with s - t < windowMs, every key whose timestamps were
\* all stale is gone, and every key keeps exactly its non-stale timestamps.
C14_SweepPostcondition ==
    [][Sweep =>
          /\ \A k \in DOMAIN requestStore' :
                /\ k \in DOMAIN requestStore
                /\ requestStore'[k] # <<>>
                /\ \A i \in DOMAIN requestStore'[k] :
                      now - requestStore'[k][i] < windowMs
          /\ \A k \in DOMAIN requestStore :
                /\ (\A i \in DOMAIN requestStore[k] :
                        now - requestStore[k][i] >= windowMs)
                      => k \notin DOMAIN requestStore'
                /\ FreshPart(requestStore[k], now)
                      = StoreGet(requestStore', k)]_vars

\* C14 witness: a Sweep has just run; one key is gone although it was
\* admitted earlier, the other is left with a timestamp of this window.
C14_Witness ==
    /\ enabled /\ last.op = "sweep"
    /\ \E k \in Keys :
          /\ k \notin DOMAIN requestStore
          /\ solo.store[k] = EmptyStore
          /\ hist[k] # <<>>
    /\ \E k \in DOMAIN requestStore : requestStore[k] # <<>>

\* C16: right after an Admit for key k, allowed or rejected, the stored log
\* of k holds no timestamp t with now - t >= windowMs.
C16_PrunedOnAccess ==
    AdmitReturned =>
        \A i \in DOMAIN StoreGet(requestStore, last.key) :
            now - StoreGet(requestStore, last.key)[i] < windowMs

\* C16 witness: a rejected request whose key, earlier in the run, had
\* stale timestamps pruned from its stored log.
C16_Witness ==
    /\ AdmitReturned /\ last.decision = "Reject"
    /\ requestStore[last.key][1] > 0
    /\ Len(hist[last.key]) > Len(requestStore[last.key])


\* The number of times instant t is recorded in a log.
Occurrences(log, t) == Cardinality({i \in DOMAIN log : log[i] = t})

\* The requests that returned Allow for key k having read instant t.
AllowedAt(k, t) ==
    {r \in Returned : /\ reqs[r].decision = "Allow"
                      /\ reqs[r].key = k /\ reqs[r].at = t}

\* C15: under every interleaving of the sweep with the requests in flight,
\* the timestamp of every admitted request is in the stored log of its key
\* for as long as it is inside the window, as often as it was admitted: no
\* sweep deletes or overwrites it.
C15_SweepKeepsAdmitted ==
    \A r \in Returned :
        (reqs[r].decision = "Allow" /\ now - reqs[r].at < windowMs)
        => Occurrences(StoreGet(requestStore, reqs[r].key), reqs[r].at)
              >= Cardinality(AllowedAt(reqs[r].key, reqs[r].at))

\* C15 witness: a sweep is past the keys of two admitted requests; the one
\* whose timestamp is stale is gone, the one still in the window is stored.
C15_Witness ==
    /\ sweeper.pc = "iterating"
    /\ \E r1 \in Returned, r2 \in Returned :
          /\ reqs[r1].decision = "Allow" /\ reqs[r2].decision = "Allow"
          /\ {reqs[r1].key, reqs[r2].key} \subseteq sweeper.visited
          /\ reqs[r1].key # reqs[r2].key
          /\ now - reqs[r1].at < windowMs
          /\ reqs[r1].at \in {requestStore[reqs[r1].key][i] :
                                 i \in DOMAIN requestStore[reqs[r1].key]}
          /\ reqs[r2].key \notin DOMAIN requestStore


\* The latest timestamp stored for key k.
Latest(k) ==
    CHOOSE t \in {requestStore[k][i] : i \in DOMAIN requestStore[k]} :
        \A i \in DOMAIN requestStore[k] : requestStore[k][i] <= t

\* A Sweep removes k exactly when it runs at or after the latest stored
\* timestamp of k plus windowMs.
SweepRemovesAbandoned ==
    \A k \in DOMAIN requestStore :
        (Sweep /\ requestStore[k] # <<>>) =>
            ((k \notin DOMAIN requestStore') <=> (now >= Latest(k) + windowMs))

\* A key that is absent becomes present only by an Admit for it.
AbsentUntilAdmit ==
    \A k \in Keys :
        (k \notin DOMAIN requestStore /\ k \in DOMAIN requestStore')
        => (last'.op = "admit" /\ last'.key = k /\ last'.decision = "Allow")

\* C17: with the timer firing and time advancing, a key whose latest stored
\* timestamp t stays the latest (no Admit adds a later one) is eventually
\* removed; a Sweep removes it exactly when it runs at or after
\* t + windowMs; once absent, a key stays absent until its next Admit.
C17_AbandonedKeyRemoved ==
    /\ [][SweepRemovesAbandoned /\ AbsentUntilAdmit]_vars
    /\ \A k \in Keys : \A t \in 0..MaxTime :
          (/\ k \in DOMAIN requestStore
           /\ requestStore[k] # <<>>
           /\ Latest(k) = t
           /\ t + windowMs <= MaxTime)
          ~> (k \notin DOMAIN requestStore \/ Latest(k) # t)

\* C17 witness: a Sweep has just run at or after the last admission of a
\* key plus windowMs, and the key, never reset since, is absent.
C17_Witness ==
    /\ last.op = "sweep"
    /\ \E k \in Keys :
          /\ k \notin DOMAIN requestStore
          /\ hist[k] # <<>>
          /\ now >= hist[k][Len(hist[k])] + windowMs


\* C18: at an Admit at instant now, exactly the stored timestamps t with
\* now - windowMs < t <= now are counted toward the quota; in particular a
\* stored timestamp later than now is not counted.
C18_WindowInterval ==
    AdmitReturned =>
        Len(last.recentRequests) =
            Cardinality({i \in DOMAIN last.clientRequests :
                            /\ now - windowMs < last.clientRequests[i]
                            /\ last.clientRequests[i] <= now})


\* No rate-limit variable is set in the environment.
NoRateLimitEnv ==
    /\ config.env.RATE_LIMIT_ENABLED = Undefined
    /\ config.env.RATE_LIMIT_WINDOW = Undefined
    /\ config.env.RATE_LIMIT_MAX = Undefined

\* C19: with no rate-limit variable set, after defaults, validateConfig and
\* mergeEnvironmentConfig the exported configuration, and the limiter that
\* createRateLimiter() builds from it, have enabled = true,
\* windowMs = 900000 and maxRequests = 100.
C19_ConfigDefaults ==
    (config.pc = "created" /\ NoRateLimitEnv) =>
        /\ config.security.rateLimit =
              [enabled |-> Bool(TRUE), windowMs |-> Num(900000),
               maxRequests |-> Num(100)]
        /\ enabled = Bool(TRUE)
        /\ windowMs = Num(900000)
        /\ maxRequests = Num(100)

\* A variable is set to a positive integer: digits only, not all zero.
PositiveInteger(x) ==
    /\ x.t = "string" /\ x.v # <<>>
    /\ \A i \in DOMAIN x.v : x.v[i] \in DigitChars
    /\ \E i \in DOMAIN x.v : x.v[i] # "0"

\* C20: for every NODE_ENV, with RATE_LIMIT_MAX and RATE_LIMIT_WINDOW set to
\* positive integers M and W, the limiter created with default options is
\* enabled with maxRequests = M and windowMs = W.
C20_EnvOverrides ==
    (/\ config.pc = "created"
     /\ PositiveInteger(config.env.RATE_LIMIT_MAX)
     /\ PositiveInteger(config.env.RATE_LIMIT_WINDOW)
     /\ config.env.RATE_LIMIT_ENABLED # Str(NameFalse))
    => /\ Truthy(enabled)
       /\ maxRequests = ParseInt(config.env.RATE_LIMIT_MAX)
       /\ windowMs = ParseInt(config.env.RATE_LIMIT_WINDOW)


\* C21: for every NODE_ENV, the loaded configuration and the limiter
\* created with default options are disabled exactly when
\* RATE_LIMIT_ENABLED is the string false.
C21_EnabledToggle ==
    config.pc = "created" =>
        /\ Prop(config.security.rateLimit, "enabled")
              = Bool(config.env.RATE_LIMIT_ENABLED # Str(NameFalse))
        /\ enabled = Bool(config.env.RATE_LIMIT_ENABLED # Str(NameFalse))

\* A positive integer value.
PositiveNumber(x) == x.t = "number" /\ x.v > 0

\* C22: in every state where config.js has loaded with rate limiting
\* enabled, the windowMs and maxRequests of the configuration, which the
\* limiter, the sweep and the statistics read, are positive integers.
C22_ValidatedLimits ==
    (/\ config.pc \in {"loaded", "created"}
     /\ Truthy(Prop(config.security.rateLimit, "enabled")))
    => /\ PositiveNumber(Prop(config.security.rateLimit, "windowMs"))
       /\ PositiveNumber(Prop(config.security.rateLimit, "maxRequests"))
       /\ config.pc = "created" =>
             (PositiveNumber(windowMs) /\ PositiveNumber(maxRequests)
              /\ PositiveNumber(cfgWindowMs))


\* C25: an Admit for k that returns Reject leaves the whole store as it
\* was: now is not appended, the log of k is not rewritten, no other key
\* is touched.
C25_RejectFrame ==
    [][\A k \in Keys :
          (Admit(k) /\ enabled /\ last'.decision = "Reject")
          => requestStore' = requestStore]_vars

\* C25 witness: a request has just been rejected; the log of its key is
\* the one it read, and the other key has one too.
C25_Witness ==
    /\ AdmitReturned /\ last.decision = "Reject"
    /\ requestStore[last.key] = last.clientRequests
    /\ now \notin {last.clientRequests[i] : i \in DOMAIN last.clientRequests}
    /\ DOMAIN requestStore = Keys

\* The Allow decisions for the key of the call that has just returned,
\* made before that call and since the key's last reset, that are inside
\* the window at now.
AllowedBefore ==
    Cardinality({i \in DOMAIN HistBefore : now - HistBefore[i] < windowMs})

\* C26: with non-decreasing time, an Admit returns Reject if and only if at
\* least maxRequests earlier Allow decisions for its key (since the key's
\* last reset) have instants t with now - t < windowMs, whatever Sweep and
\* Stats calls came in between.
C26_NoFalseRejection ==
    AdmitReturned =>
        ((last.decision = "Reject") <=> (AllowedBefore >= maxRequests))

\* C26 witness: a request is allowed although its key was allowed
\* maxRequests times before: not all of those are inside the window.
C26_Witness ==
    /\ AdmitReturned /\ last.decision = "Allow"
    /\ Len(HistBefore) >= maxRequests
    /\ AllowedBefore < maxRequests
    /\ AllowedBefore > 0

\* C29: every key of the store of an enabled limiter has a log of at least
\* one and at most maxRequests timestamps.
C29_LogBounds ==
    enabled =>
        \A k \in DOMAIN requestStore :
            /\ Len(requestStore[k]) >= 1
            /\ Len(requestStore[k]) <= maxRequests

\* C29 witness: one key has a full log, the other a log of one timestamp,
\* after a sweep.
C29_Witness ==
    /\ enabled /\ maxRequests > 1 /\ last.op = "sweep"
    /\ \E k \in DOMAIN requestStore : Len(requestStore[k]) = maxRequests
    /\ \E k \in DOMAIN requestStore : Len(requestStore[k]) = 1


\* C27: the Sweep runs change no decision and no remaining value: every
\* Admit decides, and reports the remaining quota, as the run without
\* sweeps does, which counts the earlier Allow instants of the key inside
\* the limiter's window; also for a limiter whose window is longer than
\* the configured one the sweep reads.
C27_SweepTransparent ==
    AdmitReturned =>
        /\ (last.decision = "Reject") <=> (AllowedBefore >= maxRequests)
        /\ last.decision = "Allow"
              => last.headers.remaining = maxRequests - AllowedBefore - 1


\* C28: a client rejected at instant n with Retry-After r, for whose key
\* no request is made in between, is allowed at n + 1000 * r.
C28_RetryAfterSufficient ==
    [][\A k \in Keys :
          (/\ last.op = "wait" /\ last.key = k
           /\ now = last.from + 1000 * last.retryAfter
           /\ Admit(k))
          => last'.decision = "Allow"]_vars

\* C28 witness: a request is allowed at the end of the Retry-After of a
\* window of 1001 ms, 2000 ms after it was rejected; the log it read still
\* held the timestamps counted then.
C28_Witness ==
    /\ AdmitReturned /\ last.decision = "Allow"
    /\ windowMs = 1001
    /\ now >= 2000
    /\ Len(last.clientRequests) = maxRequests
    /\ last.recentRequests = <<>>


\* The window of the middleware that has just returned.
WindowOfLast == IF last.op = "admitDefault" THEN cfgWindowMs ELSE windowMs

\* The shorter of the two middlewares' windows.
ShorterWindow == IF cfgWindowMs < windowMs THEN cfgWindowMs ELSE windowMs

\* C30: the middlewares share one map keyed by client key.  A request
\* through either counts the admissions of its key recorded through both
\* (all those inside both windows are still stored), and after a request
\* admitted through one of them the log of its key holds nothing outside
\* that middleware's window, whatever the other would still count.
C30_SharedStore ==
    last.op \in {"admit", "admitDefault"} =>
        /\ Len(last.recentRequests)
              >= Cardinality({i \in DOMAIN HistBefore :
                                 now - HistBefore[i] < ShorterWindow})
        /\ last.decision = "Allow" =>
              \A i \in DOMAIN requestStore[last.key] :
                  now - requestStore[last.key][i] < WindowOfLast

\* C30 witness: the middleware with the shorter window has admitted a
\* request, counting an admission the other recorded at this instant and
\* dropping a timestamp the other, with its longer window, would count.
C30_Witness ==
    /\ last.op = "admitDefault" /\ last.decision = "Allow"
    /\ cfgWindowMs < windowMs
    /\ Len(last.recentRequests) >= 1
    /\ \E i \in DOMAIN last.clientRequests :
          /\ now - last.clientRequests[i] >= cfgWindowMs
          /\ now - last.clientRequests[i] < windowMs
    /\ Len(requestStore[last.key]) = 2

\* The last request was DELETE /files/:filename with a name that does not
\* end in .docx (whatever the case of its letters) or that contains "..",
\* "/" or a backslash.
NotADocxName ==
    /\ last.op = "delete"
    /\ \/ ~EndsWith(ToLowerCase(last.filename), ExtDocx)
       \/ Includes(last.filename, <<".", ".">>)
       \/ Includes(last.filename, <<"/">>)
       \/ Includes(last.filename, <<"\\">>)

\* C24: DELETE /files/:filename removes nothing but the named file, and
\* that only when its name ends in .docx; a request whose filename does not
\* end in .docx (case-insensitive), or contains "..", "/" or a backslash,
\* removes no file and is answered with an error status, by the server.js
\* handler and by the routes handler alike.
C24_DeleteOnlyDocx ==
    /\ last.op = "delete" =>
           \A f \in last.removed :
               f = last.filename /\ EndsWith(ToLowerCase(f), ExtDocx)
    /\ NotADocxName => /\ last.removed = {}
                       /\ last.status >= 400

\* A file that is not a DOCX document was named in a DELETE request and is
\* still in the outputs directory.
C24_Witness ==
    /\ NotADocxName
    /\ last.filename \in fs.outputs

\* The last request was a POST /convert or a POST /convert-batch that
\* reached its handler with stored uploads, and its response has been sent.
ConvertAnswered ==
    /\ last.op \in {"convert", "convert-batch"}
    /\ last.stored # {}

\* C23: when the response to a POST /convert or POST /convert-batch request
\* with stored uploads has been sent, whatever its status, none of the
\* request's uploaded files remains in the uploads directory.
C23_UploadsRemoved ==
    ConvertAnswered => last.stored \cap fs.uploads = {}

====
